---- MODULE Spec2Model ----
(***************************************************************************)
(* Model of the YouTube keyword search dashboard (src/app.py).             *)
(*                                                                         *)
(* One search invocation is the body of main() under `if search_button`:   *)
(* validate the keyword, call the search endpoint, call the detail         *)
(* endpoint, filter / score every returned item, sort, truncate to ten,    *)
(* compute the dashboard metrics and present.  The two endpoint calls are  *)
(* the only points where the environment answers, so the handler is split  *)
(* there; everything between two calls is one action.                      *)
(*                                                                         *)
(* Strings are sequences of one-character strings.  Scores are fixed       *)
(* point: math.log is tabulated in thousandths and math.exp in hundredths  *)
(* at the argument values the modelled videos use.                         *)
(***************************************************************************)
EXTENDS Integers, Sequences, FiniteSets, TLC

VARIABLES
    pc,                 \* position of the handler: idle / search_call / detail_call / done
    keyword,            \* st.text_input
    video_type,         \* st.selectbox "All" | "Short (< 3 mins)" | "Long (>= 3 mins)"
    sort_option,        \* st.selectbox "Outlier Score" | "View Count"
    min_outlier_score,  \* st.slider, in tenths (0 .. 100)
    search_requests,    \* requests sent to youtube.search().list, in order
    detail_requests,    \* id lists sent to youtube.videos().list, in order
    video_ids,          \* ids extracted from the search response
    details_items,      \* details_response["items"]
    results,            \* the list handed to presentation
    total_views,        \* running totals of the processing loop
    total_duration,
    total_outlier_score,
    metrics,            \* the four dashboard cards
    outcome,            \* what the invocation showed
    error_message,      \* str(e) of the caught exception
    dstr,               \* duration parser harness: the input string
    dparsed,            \* duration parser harness: has parse_duration run
    dresult             \* duration parser harness: its return value

vars == <<pc, keyword, video_type, sort_option, min_outlier_score,
          search_requests, detail_requests, video_ids, details_items,
          results, total_views, total_duration, total_outlier_score,
          metrics, outcome, error_message, dstr, dparsed, dresult>>

searchVars == <<pc, keyword, video_type, sort_option, min_outlier_score,
                search_requests, detail_requests, video_ids, details_items,
                results, total_views, total_duration, total_outlier_score,
                metrics, outcome, error_message>>

parseVars == <<dstr, dparsed, dresult>>

(***************************************************************************)
(* Program constants and model bounds                                      *)
(***************************************************************************)
MaxResults == 50        \* maxResults of the search request
TopN == 10              \* results[:10]
ShortLimit == 180       \* the 3 minute boundary of the video type filter
SliderMax == 100        \* slider max_value 10.0, in tenths

MaxIds == 17            \* longest enumerated id list below maxResults
MaxFew == 3             \* id lists up to this length start at every payload
MaxStrLen == 4          \* longest enumerated duration string
Milli == 10 * 10 * 10
Centi == 10 * 10

(***************************************************************************)
(* Strings                                                                 *)
(***************************************************************************)
\* str.lower() on one character
LowerChar(c) ==
    CASE c = "A" -> "a" [] c = "E" -> "e" [] c = "F" -> "f"
      [] c = "I" -> "i" [] c = "N" -> "n" [] c = "T" -> "t"
      [] OTHER -> c

\* str.lower()
Lower(s) == [i \in 1..Len(s) |-> LowerChar(s[i])]

\* Python `needle in hay` on strings
Contains(needle, hay) ==
    \E k \in 0..(Len(hay) - Len(needle)) :
        SubSeq(hay, k + 1, k + Len(needle)) = needle

\* dict.get(key, default)
Get(d, key, default) == IF key \in DOMAIN d THEN d[key] ELSE default

Digits == {"0", "1", "2", "3", "4", "5", "6", "7", "8", "9"}

DigitValue(c) ==
    CASE c = "0" -> 0 [] c = "1" -> 1 [] c = "2" -> 2 [] c = "3" -> 3
      [] c = "4" -> 4 [] c = "5" -> 5 [] c = "6" -> 6 [] c = "7" -> 7
      [] c = "8" -> 8 [] c = "9" -> 9

\* decimal value of a run of digits
RECURSIVE DecimalValue(_)
DecimalValue(run) ==
    IF run = <<>> THEN 0
    ELSE 10 * DecimalValue(SubSeq(run, 1, Len(run) - 1)) + DigitValue(run[Len(run)])

(***************************************************************************)
(* parse_duration: isodate.parse_duration followed by total_seconds(),     *)
(* any exception turned into 0.  isodate matches the designator form       *)
(*   [+-] P [nY][nM][nW][nD] [T [nH][nM][nS]]                              *)
(* where P must be followed by a word character.  Integer components only; *)
(* years and months are carried by isodate's Duration object, whose        *)
(* total_seconds() is that of its timedelta part.                          *)
(***************************************************************************)
RECURSIVE DigitsEnd(_, _)
DigitsEnd(s, pos) ==
    IF pos <= Len(s) /\ s[pos] \in Digits THEN DigitsEnd(s, pos + 1) ELSE pos

IndexOf(units, c) ==
    IF \E i \in 1..Len(units) : units[i] = c
    THEN CHOOSE i \in 1..Len(units) : units[i] = c
    ELSE 0

\* consume "<digits><unit>" groups, the units in the order the pattern lists them
RECURSIVE ScanUnits(_, _, _, _)
ScanUnits(s, pos, units, acc) ==
    LET e == DigitsEnd(s, pos) IN
    IF e = pos \/ e > Len(s) \/ IndexOf(units, s[e]) = 0
    THEN [pos |-> pos, acc |-> acc]
    ELSE ScanUnits(s, e + 1,
                   SubSeq(units, IndexOf(units, s[e]) + 1, Len(units)),
                   [acc EXCEPT ![s[e]] = DecimalValue(SubSeq(s, pos, e - 1))])

DateUnits == <<"Y", "M", "W", "D">>
TimeUnits == <<"H", "M", "S">>
NonWordChars == {"+", "-", ".", ",", ":", " "}

NoMatch == [ok |-> FALSE, seconds |-> 0]
NoDate == [u \in {"Y", "M", "W", "D"} |-> 0]
NoTime == [u \in {"H", "M", "S"} |-> 0]

\* the bug a mutant plants: the hours are counted as minutes
TotalSeconds_HoursAsMinutes(d, t) ==
    d["W"] * 604800 + d["D"] * 86400 + t["H"] * 60 + t["M"] * 60 + t["S"]

\* timedelta(weeks, days, hours, minutes, seconds).total_seconds()
TotalSeconds(d, t) ==
    d["W"] * 604800 + d["D"] * 86400 + t["H"] * 3600 + t["M"] * 60 + t["S"]

\* the pattern ends with $: nothing may follow the last group
MatchEnd(s, negative, d, time) ==
    IF time.pos = Len(s) + 1
    THEN [ok |-> TRUE,
          seconds |-> IF negative THEN 0 - TotalSeconds(d, time.acc)
                      ELSE TotalSeconds(d, time.acc)]
    ELSE NoMatch

\* the optional time part, introduced by T
MatchTime(s, negative, date) ==
    IF date.pos <= Len(s) /\ s[date.pos] = "T"
    THEN MatchEnd(s, negative, date.acc, ScanUnits(s, date.pos + 1, TimeUnits, NoTime))
    ELSE MatchEnd(s, negative, date.acc, [pos |-> date.pos, acc |-> NoTime])

\* the optional sign, then P followed by a word character, then the date part
MatchFrom(s, p, negative) ==
    IF Len(s) >= p + 1 /\ s[p] = "P" /\ s[p + 1] \notin NonWordChars
    THEN MatchTime(s, negative, ScanUnits(s, p + 1, DateUnits, NoDate))
    ELSE NoMatch

isodate_parse_duration(s) ==
    IF Len(s) >= 1 /\ s[1] \in {"+", "-"}
    THEN MatchFrom(s, 2, s[1] = "-")
    ELSE MatchFrom(s, 1, FALSE)

\* the bug a mutant plants: a failed parse yields a non-zero default
parse_duration_NonZeroDefault(duration_str) ==
    LET parsed == isodate_parse_duration(duration_str) IN
    IF parsed.ok THEN parsed.seconds ELSE 45

parse_duration(duration_str) ==
    LET parsed == isodate_parse_duration(duration_str) IN
    IF parsed.ok THEN parsed.seconds ELSE 0

(***************************************************************************)
(* calculate_outlier_score, in units of 1 / ScoreUnit.                     *)
(***************************************************************************)
\* math.log(n) in thousandths
LogMilli(n) ==
    CASE n = 1 -> 0 [] n = 10 -> 2303 [] n = 100 -> 4605
      [] n = 1000 -> 6908 [] n = 50001 -> 10820

\* math.exp(-(seconds / 60.0) / 30) in hundredths
ExpDecayCenti(seconds) ==
    CASE seconds = 0 -> 100 [] seconds = 45 -> 98 [] seconds = 120 -> 94
      [] seconds = 179 -> 91 [] seconds = 180 -> 90 [] seconds = 5415 -> 5

ScoreUnit == 2 * Milli * Centi

\* the bug a mutant plants: the 0.8 floor of the duration weight is left out
calculate_outlier_score_NoFloor(view_count, like_count, duration_seconds) ==
    LET base_score      == 3 * LogMilli(view_count + 1) + 4 * LogMilli(like_count + 1)
        duration_factor == ExpDecayCenti(duration_seconds) * 5
        final_score     == base_score * ((duration_factor * 20) \div Centi)
    IN final_score

calculate_outlier_score(view_count, like_count, duration_seconds) ==
    LET base_score      == 3 * LogMilli(view_count + 1) + 4 * LogMilli(like_count + 1)  \* in 1/2000
        duration_factor == ExpDecayCenti(duration_seconds) * 5                          \* in 1/100
        final_score     == base_score * (80 + (duration_factor * 20) \div Centi)
    IN final_score

\* the slider value (tenths) in score units
Threshold(tenths) == tenths * (ScoreUnit \div 10)

(***************************************************************************)
(* The videos the two endpoints can answer with.  An item is the JSON      *)
(* object of videos().list: a record that may lack snippet, statistics or  *)
(* contentDetails, or single keys of them.  viewCount / likeCount stand    *)
(* for the decimal strings of the API after int().                         *)
(***************************************************************************)
EmptyDict == <<>>

Str_Fine    == <<"F", "i", "n", "e">>
Str_FINE    == <<"F", "I", "N", "E">>
Str_fin     == <<"f", "i", "n">>
Str_Fin     == <<"F", "i", "n">>
Str_ai      == <<"a", "i">>
Str_tea     == <<"t", "e", "a">>
Str_aFin    == <<"a", " ", "F", "i", "n">>
Str_AItea   == <<"A", "I", " ", "t", "e", "a">>
Str_FINai   == <<"F", "I", "N", " ", "a", "i">>
Str_finai   == <<"f", "i", "n", " ", "a", "i">>
Str_niffin  == <<"n", "i", "f", " ", "f", "i", "n">>

Dur_PT45S      == <<"P", "T", "4", "5", "S">>
Dur_PT2M       == <<"P", "T", "2", "M">>
Dur_PT3M       == <<"P", "T", "3", "M">>
Dur_PT2M59S    == <<"P", "T", "2", "M", "5", "9", "S">>
Dur_PT1H30M15S == <<"P", "T", "1", "H", "3", "0", "M", "1", "5", "S">>
Dur_PT0S       == <<"P", "T", "0", "S">>
Dur_garbage    == <<"g", "a", "r", "b", "a", "g", "e">>
Dur_empty      == <<>>

Snippet(title, description, tags) ==
    [title |-> title, description |-> description, tags |-> tags]

VideoKinds == <<
    \* 1: keyword in the title, short
    [snippet |-> Snippet(Str_Fine, Str_tea, <<>>),
     statistics |-> [viewCount |-> 999, likeCount |-> 99],
     contentDetails |-> [duration |-> Dur_PT45S]],
    \* 2: keyword in the description only, exactly 180 s
    [snippet |-> Snippet(Str_tea, Str_aFin, <<>>),
     statistics |-> [viewCount |-> 50000, likeCount |-> 999],
     contentDetails |-> [duration |-> Dur_PT3M]],
    \* 3: keyword in the tags only
    [snippet |-> Snippet(Str_tea, Str_tea, <<Str_tea, Str_fin>>),
     statistics |-> [viewCount |-> 50000, likeCount |-> 999],
     contentDetails |-> [duration |-> Dur_PT2M]],
    \* 4: "fin" nowhere, high score
    [snippet |-> Snippet(Str_AItea, <<>>, <<Str_tea>>),
     statistics |-> [viewCount |-> 50000, likeCount |-> 999],
     contentDetails |-> [duration |-> Dur_PT45S]],
    \* 5: no views and no likes
    [snippet |-> Snippet(Str_fin, Str_tea, <<>>),
     statistics |-> [viewCount |-> 0, likeCount |-> 0],
     contentDetails |-> [duration |-> Dur_PT2M]],
    \* 6: statistics missing
    [snippet |-> Snippet(Str_FINai, Str_tea, <<>>),
     contentDetails |-> [duration |-> Dur_PT45S]],
    \* 7: contentDetails and likeCount missing
    [snippet |-> Snippet(Str_fin, <<>>, <<>>),
     statistics |-> [viewCount |-> 9]],
    \* 8: malformed duration
    [snippet |-> Snippet(Str_Fine, Str_tea, <<Str_fin>>),
     statistics |-> [viewCount |-> 999, likeCount |-> 99],
     contentDetails |-> [duration |-> Dur_garbage]],
    \* 9: empty duration, same counters as 8
    [snippet |-> Snippet(Str_Fine, Str_tea, <<>>),
     statistics |-> [viewCount |-> 999, likeCount |-> 99],
     contentDetails |-> [duration |-> Dur_empty]],
    \* 10: long video, low score
    [snippet |-> Snippet(Str_finai, Str_tea, <<>>),
     statistics |-> [viewCount |-> 9, likeCount |-> 0],
     contentDetails |-> [duration |-> Dur_PT1H30M15S]],
    \* 11: one second under the boundary, likeCount missing
    [snippet |-> Snippet(Str_niffin, Str_tea, <<>>),
     statistics |-> [viewCount |-> 999],
     contentDetails |-> [duration |-> Dur_PT2M59S]],
    \* 12: same counters and duration as 1
    [snippet |-> Snippet(Str_FINE, Str_tea, <<>>),
     statistics |-> [viewCount |-> 999, likeCount |-> 99],
     contentDetails |-> [duration |-> Dur_PT45S]],
    \* 13: snippet missing
    [statistics |-> [viewCount |-> 999, likeCount |-> 99],
     contentDetails |-> [duration |-> Dur_PT45S]]
>>

NumKinds == Len(VideoKinds)
IdSpace == NumKinds * TopN          \* video ids are 1 .. IdSpace

\* the item videos().list returns for an id
Item(id) == ("id" :> id) @@ VideoKinds[(id % NumKinds) + 1]

\* the id lists search().list can answer with: arithmetic progressions of
\* distinct ids (few ids from every start, more ids from two starts), and one
\* list longer than maxResults: the request asks for at most maxResults items,
\* and the code takes the ids of whatever items come back without counting them
IdList(start, stride, n) == [i \in 1..n |-> ((start + (i - 1) * stride) % IdSpace) + 1]
Starts == 0..(NumKinds - 1)
ManyStarts == {0, 5}
Strides == {1, 7, IdSpace - 1}
LongLens == {MaxResults + 1}
IdLists ==
    {IdList(a, s, n) : a \in Starts, s \in Strides, n \in 0..MaxFew}
    \cup {IdList(a, s, n) : a \in ManyStarts, s \in Strides, n \in (MaxFew + 1)..MaxIds}
    \cup {IdList(0, 1, n) : n \in LongLens}

Keywords == {<<>>, Str_Fin, Str_ai}
VideoTypes == {"All", "Short (< 3 mins)", "Long (>= 3 mins)"}
SortOptions == {"Outlier Score", "View Count"}
Thresholds == {0, SliderMax \div 2, SliderMax}
ErrorMessages == {"quotaExceeded", "timed out"}
SetupErrors == {"'YOUTUBE_API_KEY'"}

(***************************************************************************)
(* The processing loop, the sort, the truncation and the metrics           *)
(***************************************************************************)
\* the bug a mutant plants: the description is not looked at
KeywordPresent_TitleOnly(kw, title, description) ==
    Contains(Lower(kw), Lower(title))

\* the keyword check: the record is kept when the keyword is in the title or
\* in the description
KeywordPresent(kw, title, description) ==
    ~(~Contains(Lower(kw), Lower(title)) /\ ~Contains(Lower(kw), Lower(description)))

\* the threshold check: the record is dropped when this holds
ScoreTooLow(outlier_score, tenths) == outlier_score <= Threshold(tenths)

\* the bug a mutant plants: a video of exactly 180 s counts as short
VideoTypeRejects_OffByOne(vtype, duration_seconds) ==
    \/ vtype = "Short (< 3 mins)" /\ duration_seconds > ShortLimit
    \/ vtype = "Long (>= 3 mins)" /\ duration_seconds <= ShortLimit

\* the video type filter: the record is dropped when this holds
VideoTypeRejects(vtype, duration_seconds) ==
    \/ vtype = "Short (< 3 mins)" /\ duration_seconds >= ShortLimit
    \/ vtype = "Long (>= 3 mins)" /\ duration_seconds < ShortLimit

EmptyAcc == [results |-> <<>>, total_views |-> 0, total_duration |-> 0,
             total_outlier_score |-> 0]

\* the rest of one iteration once the fields of the item are read
FilterRecord(video_id, title, description, view_count, like_count, duration_seconds, outlier_score, acc, kw, vtype, tenths) ==
    IF ~KeywordPresent(kw, title, description) THEN acc
    ELSE IF ScoreTooLow(outlier_score, tenths) THEN acc
    ELSE IF VideoTypeRejects(vtype, duration_seconds) THEN acc
    ELSE [results |-> Append(acc.results,
                        [video_id |-> video_id, title |-> title,
                         description |-> description, view_count |-> view_count,
                         like_count |-> like_count, duration |-> duration_seconds,
                         outlier_score |-> outlier_score]),
          total_views |-> acc.total_views + view_count,
          total_duration |-> acc.total_duration + duration_seconds,
          total_outlier_score |-> acc.total_outlier_score + outlier_score]

ScoreRecord(video_id, title, description, view_count, like_count, duration_seconds, acc, kw, vtype, tenths) ==
    FilterRecord(video_id, title, description, view_count, like_count,
                 duration_seconds,
                 calculate_outlier_score(view_count, like_count, duration_seconds),
                 acc, kw, vtype, tenths)

\* one iteration of `for item in details_response.get("items", [])`; the
\* fields that are only displayed (channel, thumbnail, published_at, url,
\* comment_count) are left out of the record
ProcessItem(item, acc, kw, vtype, tenths) ==
    LET video_id         == item["id"]
        snippet          == Get(item, "snippet", EmptyDict)
        statistics       == Get(item, "statistics", EmptyDict)
        contentDetails   == Get(item, "contentDetails", EmptyDict)
        title            == Get(snippet, "title", <<>>)
        description      == Get(snippet, "description", <<>>)
        view_count       == Get(statistics, "viewCount", 0)
        like_count       == IF "likeCount" \in DOMAIN statistics
                            THEN statistics["likeCount"] ELSE 0
        duration_str     == Get(contentDetails, "duration", Dur_PT0S)
        duration_seconds == parse_duration(duration_str)
    IN ScoreRecord(video_id, title, description, view_count, like_count,
                   duration_seconds, acc, kw, vtype, tenths)

\* the loop over items[lo .. hi], in order: the accumulator of a range is that
\* of its first half continued by its second half
RECURSIVE ProcessItems(_, _, _, _, _, _)
ProcessItems(items, lo, hi, kw, vtype, tenths) ==
    IF lo > hi THEN EmptyAcc
    ELSE IF lo = hi THEN ProcessItem(items[lo], EmptyAcc, kw, vtype, tenths)
    ELSE LET mid   == (lo + hi) \div 2
             left  == ProcessItems(items, lo, mid, kw, vtype, tenths)
             right == ProcessItems(items, mid + 1, hi, kw, vtype, tenths)
         IN [results |-> left.results \o right.results,
             total_views |-> left.total_views + right.total_views,
             total_duration |-> left.total_duration + right.total_duration,
             total_outlier_score |->
                 left.total_outlier_score + right.total_outlier_score]

\* the elements of seq whose key is k, in their order in seq
WithKey(seq, key, k) ==
    LET HasKey(x) == x[key] = k IN SelectSeq(seq, HasKey)

Largest(ks) == CHOOSE k \in ks : \A other \in ks : other <= k

\* the runs of equal keys, the largest key first
RECURSIVE ConcatByKey(_, _, _)
ConcatByKey(seq, key, ks) ==
    IF ks = {} THEN <<>>
    ELSE LET top  == Largest(ks)
             rest == ConcatByKey(seq, key, ks \ {top})
         IN WithKey(seq, key, top) \o rest

Reverse(seq) == [i \in 1..Len(seq) |-> seq[Len(seq) + 1 - i]]

\* the bug a mutant plants: reverse=True taken as "sort ascending, then
\* reverse", which turns the order of equal keys around
SortedDesc_ReversedTies(seq, key) ==
    ConcatByKey(Reverse(seq), key, {seq[i][key] : i \in 1..Len(seq)})

\* sorted(seq, key=..., reverse=True): descending by key, and elements with
\* equal keys keep the order they have in seq
SortedDesc(seq, key) ==
    ConcatByKey(seq, key, {seq[i][key] : i \in 1..Len(seq)})

SortResults(rs, option) ==
    IF option = "View Count" THEN SortedDesc(rs, "view_count")
    ELSE SortedDesc(rs, "outlier_score")

\* the bug a mutant plants: the slice keeps one record too many
TopResults_OneMore(rs) == SubSeq(rs, 1, IF Len(rs) < TopN + 1 THEN Len(rs) ELSE TopN + 1)

\* results[:10]
TopResults(rs) == SubSeq(rs, 1, IF Len(rs) < TopN THEN Len(rs) ELSE TopN)

\* a quotient kept as numerator and denominator
Ratio(total, n) == [num |-> total, den |-> n]

NoMetrics == [num_videos |-> 0, avg_views |-> Ratio(0, 1),
              avg_duration |-> Ratio(0, 1), avg_outlier_score |-> Ratio(0, 1)]

DashboardMetrics(shown, tv, td, ts) ==
    [num_videos |-> Len(shown),
     avg_views |-> Ratio(tv, Len(shown)),
     avg_duration |-> Ratio(td, Len(shown)),
     avg_outlier_score |-> Ratio(ts, Len(shown))]

(***************************************************************************)
(* The search invocation                                                   *)
(***************************************************************************)
InitSearch ==
    /\ pc = "idle"
    /\ keyword = <<>>
    /\ video_type = "All"
    /\ sort_option = "Outlier Score"
    /\ min_outlier_score = SliderMax \div 2
    /\ search_requests = <<>>
    /\ detail_requests = <<>>
    /\ video_ids = <<>>
    /\ details_items = <<>>
    /\ results = <<>>
    /\ total_views = 0
    /\ total_duration = 0
    /\ total_outlier_score = 0
    /\ metrics = NoMetrics
    /\ outcome = "none"
    /\ error_message = ""

InitHarness ==
    /\ dstr = <<>>
    /\ dparsed = FALSE
    /\ dresult = 0

Init == InitSearch /\ InitHarness

\* the Search button with an empty keyword: the sidebar error, and return
ClickSearchNoKeyword ==
    /\ pc = "idle"
    /\ \E vt \in VideoTypes, so \in SortOptions, th \in Thresholds :
        /\ video_type' = vt
        /\ sort_option' = so
        /\ min_outlier_score' = th
    /\ keyword' = <<>>
    /\ outcome' = "no_keyword"
    /\ pc' = "done"
    /\ UNCHANGED <<search_requests, detail_requests, video_ids, details_items,
                   results, total_views, total_duration, total_outlier_score,
                   metrics, error_message>>
    /\ UNCHANGED parseVars

\* the Search button with a keyword: the search request goes out
ClickSearch ==
    /\ pc = "idle"
    /\ \E kw \in Keywords \ {<<>>}, vt \in VideoTypes, so \in SortOptions,
          th \in Thresholds :
        /\ keyword' = kw
        /\ video_type' = vt
        /\ sort_option' = so
        /\ min_outlier_score' = th
        /\ search_requests' =
             Append(search_requests, [q |-> kw, maxResults |-> MaxResults])
    /\ pc' = "search_call"
    /\ UNCHANGED <<detail_requests, video_ids, details_items, results,
                   total_views, total_duration, total_outlier_score, metrics,
                   outcome, error_message>>
    /\ UNCHANGED parseVars

\* the Search button with a keyword, and st.secrets or build() raises: the
\* except clause shows the message before any request went out
SetupFails ==
    /\ pc = "idle"
    /\ \E kw \in Keywords \ {<<>>}, vt \in VideoTypes, so \in SortOptions,
          th \in Thresholds :
        /\ keyword' = kw
        /\ video_type' = vt
        /\ sort_option' = so
        /\ min_outlier_score' = th
    /\ \E msg \in SetupErrors : error_message' = msg
    /\ outcome' = "error"
    /\ pc' = "done"
    /\ UNCHANGED <<search_requests, detail_requests, video_ids, details_items,
                   results, total_views, total_duration, total_outlier_score,
                   metrics>>
    /\ UNCHANGED parseVars

\* search().list(...).execute() raises
SearchFails ==
    /\ pc = "search_call"
    /\ \E msg \in ErrorMessages : error_message' = msg
    /\ outcome' = "error"
    /\ pc' = "done"
    /\ UNCHANGED <<keyword, video_type, sort_option, min_outlier_score,
                   search_requests, detail_requests, video_ids, details_items,
                   results, total_views, total_duration, total_outlier_score,
                   metrics>>
    /\ UNCHANGED parseVars

\* the bug a mutant plants: the detail request is sent a second time
DetailBatches_Resend(ids) == <<ids, ids>>

\* the ids joined into the id parameter of the one videos().list request
DetailBatches(ids) == <<ids>>

\* search().list(...).execute() returns no item: "No videos found."
SearchReturnsNothing ==
    /\ pc = "search_call"
    /\ video_ids' = <<>>
    /\ outcome' = "no_videos"
    /\ pc' = "done"
    /\ UNCHANGED <<keyword, video_type, sort_option, min_outlier_score,
                   search_requests, detail_requests, details_items, results,
                   total_views, total_duration, total_outlier_score, metrics,
                   error_message>>
    /\ UNCHANGED parseVars

\* search().list(...).execute() returns ids: the detail request goes out
SearchReturns ==
    /\ pc = "search_call"
    /\ \E ids \in IdLists \ {<<>>} :
        /\ video_ids' = ids
        /\ detail_requests' = detail_requests \o DetailBatches(ids)
    /\ pc' = "detail_call"
    /\ UNCHANGED <<keyword, video_type, sort_option, min_outlier_score,
                   search_requests, details_items, results, total_views,
                   total_duration, total_outlier_score, metrics, outcome,
                   error_message>>
    /\ UNCHANGED parseVars

\* videos().list(...).execute() raises
DetailFails ==
    /\ pc = "detail_call"
    /\ \E msg \in ErrorMessages : error_message' = msg
    /\ outcome' = "error"
    /\ pc' = "done"
    /\ UNCHANGED <<keyword, video_type, sort_option, min_outlier_score,
                   search_requests, detail_requests, video_ids, details_items,
                   results, total_views, total_duration, total_outlier_score,
                   metrics>>
    /\ UNCHANGED parseVars

\* the items the detail endpoint answers with: one per requested id, in order
DetailResponse(requests) ==
    LET ids == requests[Len(requests)] IN [i \in 1..Len(ids) |-> Item(ids[i])]

\* videos().list(...).execute() returns: loop, sort, truncate, metrics, present
DetailReturns ==
    /\ pc = "detail_call"
    /\ LET items  == DetailResponse(detail_requests)
           acc    == ProcessItems(items, 1, Len(items), keyword, video_type,
                                  min_outlier_score)
           shown  == TopResults(SortResults(acc.results, sort_option))
       IN
       /\ details_items' = items
       /\ total_views' = acc.total_views
       /\ total_duration' = acc.total_duration
       /\ total_outlier_score' = acc.total_outlier_score
       /\ results' = shown
       /\ IF shown = <<>>
          THEN /\ outcome' = "no_match"
               /\ metrics' = metrics
          ELSE /\ outcome' = "shown"
               /\ metrics' = DashboardMetrics(shown, acc.total_views,
                                              acc.total_duration,
                                              acc.total_outlier_score)
    /\ pc' = "done"
    /\ UNCHANGED <<keyword, video_type, sort_option, min_outlier_score,
                   search_requests, detail_requests, video_ids, error_message>>
    /\ UNCHANGED parseVars

\* the next interaction reruns the script from the top
Rerun ==
    /\ pc = "done"
    /\ pc' = "idle"
    /\ keyword' = <<>>
    /\ video_type' = "All"
    /\ sort_option' = "Outlier Score"
    /\ min_outlier_score' = SliderMax \div 2
    /\ search_requests' = <<>>
    /\ detail_requests' = <<>>
    /\ video_ids' = <<>>
    /\ details_items' = <<>>
    /\ results' = <<>>
    /\ total_views' = 0
    /\ total_duration' = 0
    /\ total_outlier_score' = 0
    /\ metrics' = NoMetrics
    /\ outcome' = "none"
    /\ error_message' = ""
    /\ UNCHANGED parseVars

Next ==
    \/ ClickSearchNoKeyword
    \/ ClickSearch
    \/ SetupFails
    \/ SearchFails
    \/ SearchReturnsNothing
    \/ SearchReturns
    \/ DetailFails
    \/ DetailReturns
    \/ Rerun

Spec == Init /\ [][Next]_vars

(***************************************************************************)
(* The duration parser on its own: parse_duration applied to one string    *)
(***************************************************************************)
DurAlphabet == {"P", "T", "H", "M", "S", "D", "1", "3", "x"}

ShortStrings == UNION {[1..k -> DurAlphabet] : k \in 0..MaxStrLen}

ExampleDurations ==
    {Dur_PT45S, Dur_PT2M, Dur_PT3M, Dur_PT2M59S, Dur_PT1H30M15S, Dur_PT0S,
     Dur_garbage, Dur_empty,
     <<"P", "T", "0", "5", "S">>,
     <<"P", "T", "1", "0", "H", "7", "S">>,
     <<"P", "T", "1", "H", "3", "0", "M", "1", "5">>,
     <<"P", "T", "1", "5", "S", "3", "0", "M">>,
     <<"P", "1", "D", "T", "1", "H">>,
     <<"-", "P", "T", "5", "S">>,
     <<"P", "T", "4", "5", "s">>,
     <<" ", "P", "T", "4", "5", "S">>}

DurationInputs == ShortStrings \cup ExampleDurations

InitParse ==
    /\ InitSearch
    /\ dstr \in DurationInputs
    /\ dparsed = FALSE
    /\ dresult = 0

\* duration_seconds = parse_duration(duration_str)
ParseStep ==
    /\ ~dparsed
    /\ dresult' = parse_duration(dstr)
    /\ dparsed' = TRUE
    /\ UNCHANGED dstr
    /\ UNCHANGED searchVars

NextParse == ParseStep

SpecParse == InitParse /\ [][NextParse]_vars

(***************************************************************************)
(* Vocabulary of the properties                                            *)
(***************************************************************************)
\* the runs of digits that occur in s
DigitRuns(s) ==
    {SubSeq(s, i, j) : i \in 1..Len(s), j \in 1..Len(s)}
      \cap {r \in {SubSeq(s, i, j) : i \in 1..Len(s), j \in 1..Len(s)} :
              r # <<>> /\ \A k \in 1..Len(r) : r[k] \in Digits}

Component(run, unit) == IF run = <<>> THEN <<>> ELSE run \o <<unit>>

\* the string PT[nH][nM][nS]; an empty run stands for a missing component
FormatPT(h, m, s) ==
    <<"P", "T">> \o Component(h, "H") \o Component(m, "M") \o Component(s, "S")

DurationChars ==
    Digits \cup {"P", "T", "Y", "M", "W", "D", "H", "S", "+", "-", ".", ","}

\* strings no reading of ISO 8601 accepts as a duration
Unparseable(s) ==
    \/ s = <<>>
    \/ Len(s) = 1
    \/ s[1] \notin {"P", "+", "-"}
    \/ \E i \in 1..Len(s) : s[i] \notin DurationChars
    \/ s[Len(s)] \in Digits

Occurs(kw, text) ==
    \E start \in 1..(Len(text) - Len(kw) + 1) :
        \A j \in 1..Len(kw) : LowerChar(kw[j]) = LowerChar(text[start + j - 1])

HasSnippet(item) == "snippet" \in DOMAIN item
TitleOf(item) == IF HasSnippet(item) THEN item["snippet"]["title"] ELSE <<>>
DescriptionOf(item) == IF HasSnippet(item) THEN item["snippet"]["description"] ELSE <<>>
TagsOf(item) == IF HasSnippet(item) THEN item["snippet"]["tags"] ELSE <<>>

InTitle(kw, item) == Occurs(kw, TitleOf(item))
InDescription(kw, item) == Occurs(kw, DescriptionOf(item))
InTags(kw, item) == \E t \in 1..Len(TagsOf(item)) : Occurs(kw, TagsOf(item)[t])

HasCount(item, name) ==
    "statistics" \in DOMAIN item /\ name \in DOMAIN item["statistics"]
CountOf(item, name) == IF HasCount(item, name) THEN item["statistics"][name] ELSE 0

HasDuration(item) ==
    "contentDetails" \in DOMAIN item /\ "duration" \in DOMAIN item["contentDetails"]
DurationOf(item) == IF HasDuration(item) THEN item["contentDetails"]["duration"] ELSE Dur_PT0S
SecondsOf(item) == parse_duration(DurationOf(item))

ScoreOf(item) ==
    calculate_outlier_score(CountOf(item, "viewCount"), CountOf(item, "likeCount"),
                            SecondsOf(item))

\* the duration class of the specification: Short is < 180 s, Long is >= 180 s
InDurationClass(vtype, seconds) ==
    CASE vtype = "All" -> TRUE
      [] vtype = "Short (< 3 mins)" -> seconds < 180
      [] vtype = "Long (>= 3 mins)" -> seconds >= 180

AboveThreshold(score) == score * 10 > min_outlier_score * ScoreUnit

\* the two filters other than the keyword check
PassesScoreAndClass(item) ==
    /\ AboveThreshold(ScoreOf(item))
    /\ InDurationClass(video_type, SecondsOf(item))

\* the record passes every filter the search applies
PassesAll(item) ==
    /\ InTitle(keyword, item) \/ InDescription(keyword, item)
    /\ PassesScoreAndClass(item)

Fetched == 1..Len(details_items)
Shown == 1..Len(results)
Passing == {i \in Fetched : PassesAll(details_items[i])}

\* the position in the detail response of the video with this id
PositionOf(id) == CHOOSE i \in Fetched : details_items[i]["id"] = id
IsShown(i) == \E r \in Shown : results[r]["video_id"] = details_items[i]["id"]

\* the detail response came back and was processed
Processed == outcome \in {"shown", "no_match"}

SortKey(rec) ==
    IF sort_option = "View Count" THEN rec["view_count"] ELSE rec["outlier_score"]
ItemKey(item) ==
    IF sort_option = "View Count" THEN CountOf(item, "viewCount") ELSE ScoreOf(item)

\* C1: every record of the final output has a score strictly above the
\* threshold, has the keyword (case-insensitively) in its title, description
\* or tags, and lies in the chosen duration class (Short < 180 s, Long >= 180 s).
C1_OutputSatisfiesFilters ==
    \A r \in Shown :
        LET rec  == results[r]
            item == details_items[PositionOf(rec["video_id"])]
        IN /\ AboveThreshold(rec["outlier_score"])
           /\ InTitle(keyword, item) \/ InDescription(keyword, item) \/ InTags(keyword, item)
           /\ InDurationClass(video_type, rec["duration"])
           /\ rec["duration"] = SecondsOf(item)
           /\ rec["outlier_score"] = ScoreOf(item)

\* a Long search showed a video of exactly 180 s and dropped another record
C1_Witness ==
    /\ outcome = "shown"
    /\ video_type = "Long (>= 3 mins)"
    /\ min_outlier_score > 0
    /\ \E r \in Shown : results[r]["duration"] = 180
    /\ Len(results) < Len(details_items)

\* C2 as stated: the keyword check drops a record exactly when the keyword is
\* in none of its title, description and tags.  Read off searches that do not
\* truncate: a record passing the other two filters is shown iff the keyword
\* check kept it.
C2_DropsIffAbsentEverywhere ==
    (Processed /\ Len(details_items) <= TopN) =>
        \A i \in Fetched :
            PassesScoreAndClass(details_items[i]) =>
                (IsShown(i) <=> \/ InTitle(keyword, details_items[i])
                                \/ InDescription(keyword, details_items[i])
                                \/ InTags(keyword, details_items[i]))

\* C2 amended: the keyword check drops a record exactly when the keyword is
\* in neither its title nor its description; the tags are not consulted, so a
\* record whose only occurrence is in its tags is dropped.
C2_DropsIffAbsentFromTitleAndDescription ==
    (Processed /\ Len(details_items) <= TopN) =>
        \A i \in Fetched :
            PassesScoreAndClass(details_items[i]) =>
                (IsShown(i) <=> \/ InTitle(keyword, details_items[i])
                                \/ InDescription(keyword, details_items[i]))

\* a record with the keyword in its tags only was dropped although it passes
\* the other filters, and a record with the keyword in its description only
\* was shown
C2_Witness ==
    /\ outcome = "shown"
    /\ Len(details_items) <= TopN
    /\ \E i \in Fetched :
        /\ PassesScoreAndClass(details_items[i])
        /\ InTags(keyword, details_items[i])
        /\ ~InTitle(keyword, details_items[i])
        /\ ~InDescription(keyword, details_items[i])
        /\ ~IsShown(i)
    /\ \E i \in Fetched :
        /\ ~InTitle(keyword, details_items[i])
        /\ InDescription(keyword, details_items[i])
        /\ IsShown(i)

\* C3: the list handed to presentation never has more than 10 records, and
\* after a processed search it has exactly min(10, number of passing records).
C3_AtMostTen ==
    /\ Len(results) <= 10
    /\ Processed =>
         Len(results) = IF Cardinality(Passing) < 10 THEN Cardinality(Passing) ELSE 10

\* more than ten records passed and ten are shown
C3_Witness ==
    /\ outcome = "shown"
    /\ Cardinality(Passing) > 10
    /\ Len(results) = 10

\* C4: the output is in descending order of the chosen sort key; records
\* with equal keys are in the order of the detail response; a passing record
\* that was cut off has no larger key than any shown record, and follows in
\* the detail response any shown record with the same key.
C4_SortedStable ==
    Processed =>
      /\ \A a \in Shown, b \in Shown :
           a < b =>
             \/ SortKey(results[a]) > SortKey(results[b])
             \/ /\ SortKey(results[a]) = SortKey(results[b])
                /\ PositionOf(results[a]["video_id"]) < PositionOf(results[b]["video_id"])
      /\ \A i \in Passing :
           ~IsShown(i) =>
             \A r \in Shown :
               \/ ItemKey(details_items[i]) < SortKey(results[r])
               \/ /\ ItemKey(details_items[i]) = SortKey(results[r])
                  /\ PositionOf(results[r]["video_id"]) < i

\* a search sorted by view count shows two records with equal view counts, has
\* reordered the detail response, and has cut a passing record off
C4_Witness ==
    /\ outcome = "shown"
    /\ sort_option = "View Count"
    /\ \E a \in Shown, b \in Shown :
         a < b /\ results[a]["view_count"] = results[b]["view_count"]
    /\ \E a \in Shown, b \in Shown :
         /\ a < b
         /\ PositionOf(results[a]["video_id"]) > PositionOf(results[b]["video_id"])
    /\ \E i \in Passing : ~IsShown(i)

\* ceil(n / 50)
BatchesNeeded(n) == (n + 49) \div 50

RECURSIVE Flatten(_)
Flatten(batches) ==
    IF batches = <<>> THEN <<>>
    ELSE LET rest == Flatten(Tail(batches)) IN Head(batches) \o rest

DetailStageRan == pc = "detail_call" \/ Processed

BadDuration(item) == HasDuration(item) /\ Unparseable(DurationOf(item))
Defective(item) ==
    \/ ~HasSnippet(item)
    \/ ~HasCount(item, "viewCount")
    \/ ~HasCount(item, "likeCount")
    \/ ~HasDuration(item)
    \/ BadDuration(item)

\* the record shown for fetched item i
RecordOf(i) ==
    results[CHOOSE r \in Shown : results[r]["video_id"] = details_items[i]["id"]]

\* C7: a defective item never aborts the search.  A search whose two calls
\* returned ends processed, not failed, whatever items came back; a shown
\* record carries 0 for a missing counter and for a missing, empty or
\* malformed duration; and when nothing is cut off, every passing item is
\* shown, the defective ones and the ones fetched after a defective one
\* alike.  Once a request is out, only a failed call ends the search in an
\* error.
C7_ItemErrorsAbsorbed ==
    /\ (pc = "done" /\ details_items # <<>>) => Processed
    /\ outcome = "error" =>
         /\ details_items = <<>>
         /\ error_message \in ErrorMessages \cup SetupErrors
         /\ error_message \in ErrorMessages <=> Len(search_requests) = 1
    /\ Processed =>
         \A i \in Fetched :
           LET item == details_items[i] IN
           /\ (PassesAll(item) /\ Cardinality(Passing) <= 10) => IsShown(i)
           /\ IsShown(i) =>
                /\ ~HasCount(item, "viewCount") => RecordOf(i)["view_count"] = 0
                /\ ~HasCount(item, "likeCount") => RecordOf(i)["like_count"] = 0
                /\ (~HasDuration(item) \/ BadDuration(item)) => RecordOf(i)["duration"] = 0

\* a search showed an item with a malformed duration, an item without
\* contentDetails and likeCount, and an item fetched after both
C7_Witness ==
    /\ outcome = "shown"
    /\ \E i \in Fetched, j \in Fetched, k \in Fetched :
         /\ i < k /\ j < k
         /\ BadDuration(details_items[i]) /\ DurationOf(details_items[i]) # <<>>
         /\ IsShown(i) /\ RecordOf(i)["duration"] = 0
         /\ ~HasDuration(details_items[j]) /\ ~HasCount(details_items[j], "likeCount")
         /\ IsShown(j)
         /\ ~Defective(details_items[k]) /\ IsShown(k)
    /\ \E i \in Fetched : ~HasSnippet(details_items[i])

\* C8: a failed search or detail call ends the invocation as a failed search
\* that carries the error's message and presents no result list; nothing is
\* retried: within one invocation at most one search request and at most
\* one detail request go out, the detail request only after the search
\* returned a non-empty id list.
C8_FailFast ==
    /\ outcome = "error" =>
         /\ pc = "done"
         /\ error_message \in ErrorMessages \cup SetupErrors
         /\ results = <<>>
         /\ metrics = NoMetrics
    /\ outcome # "error" => error_message = ""
    /\ Len(search_requests) <= 1
    /\ Len(detail_requests) <= 1
    /\ Len(detail_requests) = 1 => (Len(search_requests) = 1 /\ video_ids # <<>>)
    /\ pc = "detail_call" => Len(detail_requests) = 1
    /\ (pc = "done" /\ outcome \in {"no_keyword"}) => Len(search_requests) = 0

\* the detail call failed after the search returned ids
C8_Witness ==
    /\ outcome = "error"
    /\ error_message = "quotaExceeded"
    /\ Len(search_requests) = 1
    /\ Len(detail_requests) = 1
    /\ video_ids # <<>>

\* the argument values the score tables cover
ViewValues == {0, 9, 99, 999, 50000}
LikeValues == {0, 9, 99, 999}
SecondValues == {0, 45, 120, 179, 180, 5415}

\* 1.5*ln(views+1) + 2*ln(likes+1), in 1/2000
BaseOf(views, likes) == 3 * LogMilli(views + 1) + 4 * LogMilli(likes + 1)

\* the score over the covered argument values: base * (0.8 + decay) with
\* decay in (0, 1], 1 at duration 0 and not growing with the duration
ScoreOnGrid ==
    \A v \in ViewValues, l \in LikeValues, d \in SecondValues :
         LET score == calculate_outlier_score(v, l, d) IN
         /\ score >= 0
         /\ 80 * BaseOf(v, l) <= score /\ score <= 180 * BaseOf(v, l)
         /\ calculate_outlier_score(v, l, 0) = 180 * BaseOf(v, l)
         /\ (v = 0 /\ l = 0) => score = 0
         /\ (v > 0 \/ l > 0) => score > 0
         /\ \A e \in SecondValues :
              d <= e => calculate_outlier_score(v, l, e) <= score

\* C9: calculate_outlier_score is base * (0.8 + decay) with
\* base = 1.5*ln(views+1) + 2*ln(likes+1) and decay = exp(-minutes/30); so it
\* is never negative and is exactly 0 when views and likes are both 0,
\* whatever the duration; and a fetched record with no views and no likes is
\* never shown, whatever the threshold.
C9_ScoreFormula ==
    /\ ScoreOnGrid
    /\ Processed =>
         \A i \in Fetched :
           (CountOf(details_items[i], "viewCount") = 0
              /\ CountOf(details_items[i], "likeCount") = 0) =>
             /\ ScoreOf(details_items[i]) = 0
             /\ ~IsShown(i)

\* a search with threshold 0 fetched a record that has the keyword in its
\* title and no views and no likes, and showed other records
C9_Witness ==
    /\ outcome = "shown"
    /\ min_outlier_score = 0
    /\ \E i \in Fetched :
         /\ HasCount(details_items[i], "viewCount")
         /\ CountOf(details_items[i], "viewCount") = 0
         /\ CountOf(details_items[i], "likeCount") = 0
         /\ InTitle(keyword, details_items[i])
         /\ ~IsShown(i)

RECURSIVE SumOver(_, _)
SumOver(recs, field) ==
    IF recs = <<>> THEN 0
    ELSE LET rest == SumOver(Tail(recs), field) IN Head(recs)[field] + rest

\* C10: after a search that shows results, VIDEOS FOUND is the number of
\* displayed records and each average is the sum of the field over the
\* displayed records divided by that number.
C10_MetricsDescribeDisplayed ==
    outcome = "shown" =>
      /\ metrics["num_videos"] = Len(results)
      /\ metrics["avg_views"] = Ratio(SumOver(results, "view_count"), Len(results))
      /\ metrics["avg_duration"] = Ratio(SumOver(results, "duration"), Len(results))
      /\ metrics["avg_outlier_score"] =
           Ratio(SumOver(results, "outlier_score"), Len(results))

====
